---- MODULE Spec2Model ----
(***************************************************************************)
(* Fellow Collection Dashboard (src/fellowship_app.py).                    *)
(*                                                                         *)
(* Money amounts are fixed-point integers in units of 1/10000 dollar: the  *)
(* table's literals have at most four decimals, so 2776.037 is 27760370    *)
(* and the order between any two of them is the order of the floats.       *)
(*                                                                         *)
(* Two specifications share the Calculate handler:                         *)
(*   Spec          the Streamlit form, inputs constrained by the widgets;  *)
(*   SpecClassify  the handler driven with arbitrary (month, amount)       *)
(*                 arguments, months outside the table included.           *)
(***************************************************************************)
EXTENDS Integers, Sequences, FiniteSets, TLC

VARIABLES month_input, current_collection_input, percentile, screen, prev

vars == <<month_input, current_collection_input, percentile, screen, prev>>

----------------------------------------------------------------------------
(* Bounds of the checked input space *)

\* amounts are taken within AmountSlack units of every threshold
AmountSlack == 1
\* SpecClassify calls the classifier with months up to MonthMargin outside 1..9
MonthMargin == 1

----------------------------------------------------------------------------
(* Static data *)

\* the same table with month 8's p_25 and p_50 entries exchanged
percentile_data_swapped ==
  [Month |-> <<1, 2, 3, 4, 5, 6, 7, 8, 9>>,
   p_10 |-> <<0, 27760370, 112023740, 135496100, 190858300, 248596750, 251952800, 265495210, 302549100>>,
   p_25 |-> <<0, 49782075, 136890550, 180253400, 235030175, 270712150, 292080200, 334776450, 335670650>>,
   p_50 |-> <<2438700, 75629650, 183938200, 233740700, 271422600, 324235150, 335224650, 306882200, 385517400>>,
   p_75 |-> <<20493100, 129530150, 215123275, 279686100, 321863275, 350002525, 388459800, 389248375, 451857750>>,
   p_90 |-> <<28712380, 144223030, 240938800, 325623580, 359853990, 389103800, 429633200, 432402850, 484254500>>]

percentile_data ==
  [Month |-> <<1, 2, 3, 4, 5, 6, 7, 8, 9>>,
   p_10 |-> <<0, 27760370, 112023740, 135496100, 190858300, 248596750, 251952800, 265495210, 302549100>>,
   p_25 |-> <<0, 49782075, 136890550, 180253400, 235030175, 270712150, 292080200, 306882200, 335670650>>,
   p_50 |-> <<2438700, 75629650, 183938200, 233740700, 271422600, 324235150, 335224650, 334776450, 385517400>>,
   p_75 |-> <<20493100, 129530150, 215123275, 279686100, 321863275, 350002525, 388459800, 389248375, 451857750>>,
   p_90 |-> <<28712380, 144223030, 240938800, 325623580, 359853990, 389103800, 429633200, 432402850, 484254500>>]

\* pd.DataFrame(percentile_data): the columns keep the dict's key order
percentile_df ==
  [columns |-> <<"Month", "p_10", "p_25", "p_50", "p_75", "p_90">>,
   data |-> percentile_data]

\* the mapping without its 'p_0' key
risk_cat_no_p0 ==
  [p_10 |-> "High Risk", p_25 |-> "Watch", p_50 |-> "Watch",
   p_75 |-> "On Track", p_90 |-> "On Track"]

risk_cat ==
  [p_0 |-> "Critical", p_10 |-> "High Risk", p_25 |-> "Watch", p_50 |-> "Watch",
   p_75 |-> "On Track", p_90 |-> "On Track"]

\* the glyphs are named by their code points
risk_colors ==
  ("Critical" :> "U+1F534") @@ ("High Risk" :> "U+1F7E0") @@
  ("Watch" :> "U+1F7E1") @@ ("On Track" :> "U+1F7E2")

\* Python's None, returned for a month without a row
NoneVal == "None"

\* `percentile` before the button has been pressed in the current script run
Unset == "unset"

----------------------------------------------------------------------------
(* find_percentile_column *)

\* df['Month'] <= month
MatchingRowsLeq(df, month) ==
  {i \in 1..Len(df.data.Month) : df.data.Month[i] <= month}

\* df[df['Month'] == month]: the positions of the rows selected by the mask
MatchingRows(df, month) ==
  {i \in 1..Len(df.data.Month) : df.data.Month[i] = month}

\* .values[0]: the first selected row
FirstRow(rows) == CHOOSE i \in rows : \A j \in rows : i <= j

\* the column list cut one short at the end
percentile_cols_short(df) ==
  LET cols == SelectSeq(df.columns, LAMBDA col : col # "Month")
  IN  SubSeq(cols, 1, Len(cols) - 1)

\* [col for col in df.columns if col != 'Month']
percentile_cols(df) == SelectSeq(df.columns, LAMBDA col : col # "Month")

\* strict comparison
ThresholdLt(value, current_collection) == value < current_collection

\* reversed comparison
ThresholdGeq(value, current_collection) == value >= current_collection

\* row[col].values[0] <= current_collection
ThresholdLeq(value, current_collection) == value <= current_collection

\* the running best band starting at the first real column
DefaultLastColP10 == "p_10"

\* last_col = 'p_0'
DefaultLastCol == "p_0"

\* the for loop: keep the column while the test holds, break at the first failure
RECURSIVE Walk(_, _, _, _, _)
Walk(df, r, cols, current_collection, last_col) ==
  IF cols = <<>>
  THEN last_col
  ELSE IF ThresholdLeq(df.data[Head(cols)][r], current_collection)
       THEN Walk(df, r, Tail(cols), current_collection, Head(cols))
       ELSE last_col

find_percentile_column(df, month, current_collection) ==
  LET row == MatchingRows(df, month)
  IN  IF row = {}
      THEN NoneVal
      ELSE Walk(df, FirstRow(row), percentile_cols(df), current_collection,
                DefaultLastCol)

----------------------------------------------------------------------------
(* The rendered output of the `if st.button(...)` block *)

Element(kind, label, body) == [kind |-> kind, label |-> label, body |-> body]

ValidationError ==
  Element("error", "", <<"Invalid month entered. Please enter a month between 1 and 9.">>)

\* an uncaught KeyError of a dict lookup, shown by Streamlit as an exception
KeyErrorElement(key) == Element("exception", "KeyError", <<key>>)

\* str.upper() on the column names: 'p' becomes 'P', '_' and digits stay
upper ==
  [p_0 |-> "P_0", p_10 |-> "P_10", p_25 |-> "P_25", p_50 |-> "P_50",
   p_75 |-> "P_75", p_90 |-> "P_90"]

\* the chain written with a plain `if` for its second test
AdvisoryIfIf(risk_category) ==
  (IF risk_category = "Critical"
   THEN <<Element("error", "", <<"Fellow is in Critical status. Immediate intervention recommended.">>)>>
   ELSE <<>>)
  \o
  (IF risk_category = "High Risk"
   THEN <<Element("warning", "", <<"Fellow is at High Risk. Close monitoring and support needed.">>)>>
   ELSE IF risk_category = "Watch"
   THEN <<Element("info", "", <<"Fellow should be monitored. Consider additional support.">>)>>
   ELSE <<Element("success", "", <<"Fellow is On Track. Continue current approach.">>)>>)

\* the if / elif / elif / else chain
Advisory(risk_category) ==
  IF risk_category = "Critical"
  THEN <<Element("error", "", <<"Fellow is in Critical status. Immediate intervention recommended.">>)>>
  ELSE IF risk_category = "High Risk"
  THEN <<Element("warning", "", <<"Fellow is at High Risk. Close monitoring and support needed.">>)>>
  ELSE IF risk_category = "Watch"
  THEN <<Element("info", "", <<"Fellow should be monitored. Consider additional support.">>)>>
  ELSE <<Element("success", "", <<"Fellow is On Track. Continue current approach.">>)>>

\* the else branch: the two dict lookups, then the result panel
ResultPanel(p) ==
  IF p \notin DOMAIN risk_cat
  THEN <<KeyErrorElement(p)>>
  ELSE LET risk_category == risk_cat[p]
       IN  IF risk_category \notin DOMAIN risk_colors
           THEN <<KeyErrorElement(risk_category)>>
           ELSE LET risk_symbol == risk_colors[risk_category]
                IN  << Element("markdown", "", <<"---">>),
                       Element("subheader", "", <<"Results">>),
                       Element("metric", "Percentile", <<upper[p]>>),
                       Element("metric", "Risk Category", <<risk_symbol, risk_category>>) >>
                    \o Advisory(risk_category)

Render(p) == IF p = NoneVal THEN <<ValidationError>> ELSE ResultPanel(p)

----------------------------------------------------------------------------
(* Inputs *)

\* a month widget whose upper limit is one too high
MonthInputRangeWide == 1..10

\* st.number_input(min_value=1, max_value=9, step=1)
MonthInputRange == 1..9

\* st.number_input(min_value=0.0)
collection_min_value == 0

Thresholds(r) == {percentile_data[c][r] : c \in {"p_10", "p_25", "p_50", "p_75", "p_90"}}

Near(S) == {t + d : t \in S, d \in (0 - AmountSlack)..AmountSlack}

\* the amounts of the worked examples: 0, 15000 and 50000 dollars
ExampleAmounts == {0, 150000000, 500000000}

\* amounts the form accepts
FormAmounts ==
  {a \in ExampleAmounts \cup Near(UNION {Thresholds(r) : r \in 1..9}) :
     a >= collection_min_value}

\* months the classifier is called with
TestMonths == (1 - MonthMargin)..(9 + MonthMargin)

\* amounts the classifier is called with for a month
TestAmounts(month) ==
  ExampleAmounts \cup Near(UNION {Thresholds(r) : r \in MatchingRows(percentile_df, month)})

NoCall == [month |-> 0, current_collection |-> 0, percentile |-> Unset]

----------------------------------------------------------------------------
(* The Streamlit form *)

Init ==
  /\ month_input = 1
  /\ current_collection_input = 0
  /\ percentile = Unset
  /\ screen = <<>>
  /\ prev = NoCall

\* editing the month reruns the script with the button not pressed
SetMonth ==
  \E m \in MonthInputRange :
    /\ m # month_input
    /\ month_input' = m
    /\ percentile' = Unset
    /\ screen' = <<>>
    /\ UNCHANGED <<current_collection_input, prev>>

\* editing the amount reruns the script with the button not pressed
SetAmount ==
  \E a \in FormAmounts :
    /\ a # current_collection_input
    /\ current_collection_input' = a
    /\ percentile' = Unset
    /\ screen' = <<>>
    /\ UNCHANGED <<month_input, prev>>

\* pressing "Calculate Risk Category"
Calculate ==
  /\ percentile' = find_percentile_column(percentile_df, month_input,
                                          current_collection_input)
  /\ screen' = Render(percentile')
  /\ UNCHANGED <<month_input, current_collection_input, prev>>

Next == SetMonth \/ SetAmount \/ Calculate

Spec == Init /\ [][Next]_vars

----------------------------------------------------------------------------
(* The handler applied to arbitrary arguments *)

InitClassify ==
  /\ month_input \in TestMonths
  /\ current_collection_input \in TestAmounts(month_input)
  /\ percentile = Unset
  /\ screen = <<>>
  /\ prev = NoCall

\* a second call for the same month; prev remembers the call before it
NextAmount ==
  /\ percentile # Unset
  /\ \E a \in TestAmounts(month_input) :
       /\ a # current_collection_input
       /\ current_collection_input' = a
  /\ prev' = [month |-> month_input,
              current_collection |-> current_collection_input,
              percentile |-> percentile]
  /\ percentile' = Unset
  /\ screen' = <<>>
  /\ UNCHANGED month_input

NextClassify == Calculate \/ NextAmount

SpecClassify == InitClassify /\ [][NextClassify]_vars

----------------------------------------------------------------------------
(* Vocabulary of the properties *)

\* the bands in their order p0 < p10 < p25 < p50 < p75 < p90
BandOrder == <<"p_0", "p_10", "p_25", "p_50", "p_75", "p_90">>

Bands == {BandOrder[i] : i \in DOMAIN BandOrder}

BandIndex(b) == CHOOSE i \in DOMAIN BandOrder : BandOrder[i] = b

\* the five threshold columns in ascending band order
ThresholdBands == <<"p_10", "p_25", "p_50", "p_75", "p_90">>

\* row(m).c, for a month m of the table
T(m, c) == percentile_data[c][CHOOSE i \in 1..9 : percentile_data.Month[i] = m]

\* row(m) as the list of its five breakpoints
Breakpoints(m) == [i \in 1..5 |-> T(m, ThresholdBands[i])]

\* rank of the amount among the breakpoints: how many thresholds are <= a
Rank(m, a) == Cardinality({i \in 1..5 : Breakpoints(m)[i] <= a})

\* binary search for the insertion point to the right of every entry <= x
RECURSIVE Bisect(_, _, _, _)
Bisect(xs, x, lo, hi) ==
  IF lo >= hi
  THEN lo
  ELSE LET mid == (lo + hi) \div 2
       IN  IF x < xs[mid + 1]
           THEN Bisect(xs, x, lo, mid)
           ELSE Bisect(xs, x, mid + 1, hi)

BisectRight(xs, x) == Bisect(xs, x, 0, Len(xs))

\* Calculate has run on the inputs now in the form
Called == percentile # Unset

Kinds(kind) == {i \in DOMAIN screen : screen[i].kind = kind}

Metric(label) ==
  {screen[i].body : i \in {j \in Kinds("metric") : screen[j].label = label}}

\* the result panel shows exactly this band and this category
PanelShows(band, category) ==
  /\ Metric("Percentile") = {<<upper[band]>>}
  /\ \A body \in Metric("Risk Category") : body[2] = category
  /\ Cardinality(Kinds("metric")) = 2

ErrorShown == \E i \in DOMAIN screen : screen[i] = ValidationError

AdvisoryText ==
  ("Critical" :> "Fellow is in Critical status. Immediate intervention recommended.") @@
  ("High Risk" :> "Fellow is at High Risk. Close monitoring and support needed.") @@
  ("Watch" :> "Fellow should be monitored. Consider additional support.") @@
  ("On Track" :> "Fellow is On Track. Continue current approach.")

\* the advisory messages on the screen, the validation error not counted
Advisories ==
  {i \in DOMAIN screen :
     /\ screen[i].kind \in {"error", "warning", "info", "success"}
     /\ screen[i] # ValidationError}

\* the category the specification assigns to a band
CategoryOf ==
  [p_0 |-> "Critical", p_10 |-> "High Risk", p_25 |-> "Watch", p_50 |-> "Watch",
   p_75 |-> "On Track", p_90 |-> "On Track"]

----------------------------------------------------------------------------
(* Properties *)

\* C1: for a month in 1..9 and an amount >= 0 the walk returns the band whose
\* index is the number of thresholds <= amount (p0 when there is none), the
\* band a binary search over the row's breakpoints finds; month 3 with
\* 15000 is band p25, category Watch.
C1_WalkEqualsRank ==
  (Called /\ month_input \in 1..9 /\ current_collection_input >= 0) =>
    /\ percentile = BandOrder[Rank(month_input, current_collection_input) + 1]
    /\ percentile =
         BandOrder[BisectRight(Breakpoints(month_input), current_collection_input) + 1]
    /\ (month_input = 3 /\ current_collection_input = 150000000) =>
         (percentile = "p_25" /\ PanelShows("p_25", "Watch"))

C1_Witness ==
  /\ Called
  /\ month_input = 3
  /\ current_collection_input = 150000000
  /\ percentile = "p_25"

\* C2 as stated: for a month whose p10 threshold is 0, amount 0 is band p10,
\* category High Risk.
C2_Original ==
  (Called /\ month_input \in 1..9 /\ T(month_input, "p_10") = 0
     /\ current_collection_input = 0) =>
    (percentile = "p_10" /\ PanelShows("p_10", "High Risk"))

\* C2 amended: for a month whose p10 threshold is 0, amount 0 is never band
\* p0 but the highest band whose threshold is 0; for month 1 that is p25,
\* category Watch, because month 1's p25 threshold is 0 as well and the walk
\* stops at p50.
C2_Amended ==
  (Called /\ month_input \in 1..9 /\ T(month_input, "p_10") = 0
     /\ current_collection_input = 0) =>
    /\ percentile # "p_0"
    /\ percentile \in Bands
    /\ T(month_input, percentile) = 0
    /\ \A i \in 1..5 :
         T(month_input, ThresholdBands[i]) = 0 =>
           BandIndex(ThresholdBands[i]) <= BandIndex(percentile)
    /\ month_input = 1 =>
         /\ percentile = "p_25"
         /\ PanelShows("p_25", "Watch")
         /\ T(1, "p_50") > 0

C2_Witness ==
  /\ Called
  /\ month_input = 1
  /\ current_collection_input = 0
  /\ percentile = "p_25"

\* C3: for a month in 1..9 an amount equal to or above the p90 threshold is
\* band p90, category On Track, and no error; month 9 with 50000 is an
\* instance.
C3_TopBand ==
  (Called /\ month_input \in 1..9
     /\ current_collection_input >= T(month_input, "p_90")) =>
    /\ percentile = "p_90"
    /\ PanelShows("p_90", "On Track")
    /\ ~ErrorShown
    /\ Kinds("exception") = {}

C3_Witness ==
  /\ Called
  /\ month_input \in 1..9
  /\ current_collection_input = T(month_input, "p_90")
  /\ percentile = "p_90"

\* C4: for a month in 1..9 with a positive p10 threshold, an amount strictly
\* below that threshold is the sentinel band p0, category Critical.
C4_BelowP10 ==
  (Called /\ month_input \in 1..9 /\ T(month_input, "p_10") > 0
     /\ current_collection_input < T(month_input, "p_10")) =>
    (percentile = "p_0" /\ PanelShows("p_0", "Critical"))

C4_Witness ==
  /\ Called
  /\ month_input = 2
  /\ current_collection_input = T(2, "p_10") - 1
  /\ percentile = "p_0"

\* C5: for two calls with the same month in 1..9, the call with the smaller
\* or equal amount returns the smaller or equal band.
C5_Monotone ==
  (Called /\ prev.percentile # Unset /\ prev.month = month_input
     /\ month_input \in 1..9) =>
    /\ prev.current_collection <= current_collection_input =>
         BandIndex(prev.percentile) <= BandIndex(percentile)
    /\ current_collection_input <= prev.current_collection =>
         BandIndex(percentile) <= BandIndex(prev.percentile)

C5_Witness ==
  /\ Called
  /\ prev.percentile # Unset
  /\ prev.month = month_input
  /\ month_input \in 1..9
  /\ prev.current_collection < current_collection_input
  /\ prev.percentile = "p_10"
  /\ percentile = "p_75"

\* C6: a month without a row (0 and 10 among them) gives None for any amount,
\* None is none of the bands, and a month in 1..9 never gives None.
C6_MonthNotFound ==
  /\ NoneVal \notin Bands
  /\ Called =>
       /\ month_input \notin 1..9 => percentile = NoneVal
       /\ month_input \in 1..9 => percentile \in Bands

C6_Witness ==
  /\ Called
  /\ month_input = 10
  /\ percentile = NoneVal

\* C7: risk_cat maps each of the six bands to its category (p0 Critical, p10
\* High Risk, p25 and p50 Watch, p75 and p90 On Track), and for a month in
\* 1..9 neither risk_cat[band] nor risk_colors[category] fails.
C7_CategoryTotal ==
  /\ DOMAIN risk_cat = Bands
  /\ \A b \in Bands : b \in DOMAIN risk_cat => risk_cat[b] = CategoryOf[b]
  /\ (Called /\ month_input \in 1..9) =>
       /\ percentile \in DOMAIN risk_cat
       /\ risk_cat[percentile] \in DOMAIN risk_colors
       /\ Kinds("exception") = {}
       /\ PanelShows(percentile, CategoryOf[percentile])

C7_Witness ==
  /\ Called
  /\ month_input \in 1..9
  /\ percentile = "p_0"
  /\ PanelShows("p_0", "Critical")

\* C8: every row of the table has non-negative thresholds that do not
\* decrease from p10 to p90, and the walk never leaves behind a later band
\* whose threshold is <= the amount.
C8_RowsMonotone ==
  /\ \A m \in 1..9 :
       /\ T(m, "p_10") >= 0
       /\ \A i \in 1..4 : T(m, ThresholdBands[i]) <= T(m, ThresholdBands[i + 1])
  /\ (Called /\ month_input \in 1..9) =>
       \A i \in 1..5 :
         T(month_input, ThresholdBands[i]) <= current_collection_input =>
           BandIndex(ThresholdBands[i]) <= BandIndex(percentile)

\* the walk broke off before the last column
C8_Witness ==
  /\ Called
  /\ month_input = 8
  /\ percentile = "p_10"
  /\ current_collection_input < T(8, "p_50")

\* C9: after Calculate either the lookup failed and the screen is the
\* validation error alone, or the panel shows the upper-cased band, its
\* category and exactly the one advisory message of that category, and no
\* validation error.
C9_OneOutcome ==
  Called =>
    \/ /\ percentile = NoneVal
       /\ screen = <<ValidationError>>
    \/ /\ percentile \in Bands
       /\ ~ErrorShown
       /\ PanelShows(percentile, CategoryOf[percentile])
       /\ Cardinality(Advisories) = 1
       /\ \A i \in Advisories :
            screen[i].body = <<AdvisoryText[CategoryOf[percentile]]>>

C9_Witness ==
  /\ Called
  /\ percentile = NoneVal
  /\ screen = <<ValidationError>>

\* C10: in the form the month stays in 1..9 and the amount >= 0, and every
\* Calculate yields one of the six bands and a result panel, never the
\* validation error.
C10_ErrorUnreachable ==
  /\ month_input \in 1..9
  /\ current_collection_input >= 0
  /\ Called =>
       /\ percentile \in Bands
       /\ ~ErrorShown
       /\ Cardinality(Kinds("metric")) = 2
       /\ Metric("Percentile") = {<<upper[percentile]>>}

C10_Witness ==
  /\ Called
  /\ month_input = 9
  /\ current_collection_input = 500000000
  /\ percentile = "p_90"
  /\ ~ErrorShown

====
